---- MODULE Spec2Model ----
(***************************************************************************)
(* pixt: image -> character art.  Model of the glyph selection             *)
(* (PixtData::get_char, get_char_single_raw), the pixel-pair sampler       *)
(* (PixtData::chars), the output sink (OutputType) and the orchestrator    *)
(* (PixtImg::print / render).                                              *)
(*                                                                         *)
(* A color is a triple <<r, g, b>> of 8-bit channels.  A palette is a      *)
(* sequence of rows, each a sequence of glyphs.  A glyph is a string; a    *)
(* non-ASCII character is written by its code point ("u2580").  The bytes  *)
(* written to the destination are a sequence of string tokens.             *)
(***************************************************************************)
EXTENDS Integers, Sequences, FiniteSets, TLC

VARIABLES
    pc,        \* position of the running operation
    img,       \* the image: [width, height, pat]
    data,      \* PixtData::data, the palette
    out_type,  \* PixtImg::out_type: [fmt, color]
    y,         \* ItrImgOuter::y
    inner,     \* the current ItrImgInner: [x, y]
    out,       \* the bytes the destination has accepted, as tokens
    ops,       \* the sink operations performed, in order
    ret,       \* the result of the operation: "none", "Ok", "Err", "panic"
    call,      \* the arguments of a single function call under check
    ch,        \* the value that call returned
    prev       \* the previous run of print on the same inputs, if any

vars == <<pc, img, data, out_type, y, inner, out, ops, ret, call, ch, prev>>

----------------------------------------------------------------------------
(* Bounds                                                                   *)

MaxW == 2          \* image widths 0..MaxW
MaxH == 5          \* image heights 0..MaxH
MaxRows == 3       \* generic grid palettes have 1..MaxRows rows
MaxCols == 4       \* and 1..MaxCols columns
MaxN == 257        \* palette dimensions 1..MaxN for the index mapping
MaxWrappedY == 4   \* rows followed of a loop whose bound has wrapped around

(* Program constants                                                        *)

U8_MAX == 255      \* u8::MAX
U8_MOD == 256      \* 2^8, the modulus of an `as u8` cast
U16_MOD == 65536   \* 2^16, the modulus of u16 arithmetic
I32_MAX == 2147483647  \* 2^31 - 1: a usize of every target holds it

Min(a, b) == IF a <= b THEN a ELSE b
Max(a, b) == IF a >= b THEN a ELSE b

----------------------------------------------------------------------------
(* Palettes                                                                 *)

\* style.rs: the named presets, through IntoPixtData for [char; N] and
\* [[char; M]; N].
Ascii == << <<" ", ".", "-", "~", "+", "*", "%", "#", "@">> >>
Block == << <<" ", "u2591", "u2592", "u2593">> >>
PixelRamp == << <<" ", "u2580", "u259E", "u259F", "u2588">> >>
Braills ==
    << <<" ", "u2801", "u2809", "u2813", "u281B">>,
       <<"u2804", "u2805", "u2829", "u281D", "u281F">>,
       <<"u2824", "u2825", "u282D", "u282F", "u283D">>,
       <<"u2834", "u2835", "u283D", "u283E", "u283F">>,
       <<"u2836", "u283E", "u283E", "u283F", "u283F">> >>
Dots == << <<" ", "u2802", "u2812", "u2815", "u281E", "u281F", "u283F">> >>

\* cli.rs tests: the 5x5 fixture of test_style_get_char.
TestGrid ==
    << <<" ", "u2801", "u2809", "u2813", "u281B">>,
       <<"u2804", "u2805", "u2829", "u281D", "u281F">>,
       <<"u2824", "u2825", "u282D", "u282F", "u283F">>,
       <<"u2834", "u2835", "u283D", "u283F", "u283F">>,
       <<"u2836", "u283E", "u283F", "u283F", "u283F">> >>

\* A custom palette of r rows and c columns whose glyphs are pairwise
\* distinct: the glyph names its own cell.
Grid(r, c) ==
    [i \in 1..r |-> [j \in 1..c |-> "g" \o ToString(i - 1) \o "_" \o ToString(j - 1)]]

\* A 5x5 custom palette of distinct glyphs.
Grid5 == Grid(5, 5)

Presets == {Ascii, Block, PixelRamp, Braills, Dots}

Palettes ==
    Presets \cup {TestGrid, Grid5}
            \cup {Grid(r, c) : r \in 1..MaxRows, c \in 1..MaxCols}

----------------------------------------------------------------------------
(* Colors                                                                   *)

Levels == {0, 1, 50, 51, 52, 85, 102, 127, 128, 204, 254, 255}

Colors ==
    {<<v, v, v>> : v \in Levels}
        \cup {<<255, 0, 0>>, <<0, 255, 1>>, <<254, 255, 255>>, <<1, 2, 2>>,
              <<255, 255, 254>>, <<51, 50, 51>>, <<126, 127, 128>>}

----------------------------------------------------------------------------
(* Glyph selection                                                          *)

intensity8(c) == ((c[1] + c[2] + c[3]) % U8_MOD) \div 3
\* (r as u16 + g as u16 + b as u16) / 3
intensity16(c) == ((c[1] + c[2] + c[3]) % U16_MOD) \div 3

as_u7(v) == v % 128

\* The `as u8` cast.
as_u8(v) == v % U8_MOD

scale_index_wrapping(value, n) == ((value * n) \div U8_MAX) % n
scale_index_256(value, n) == Min((value * n) \div U8_MOD, n - 1)
scale_index_noclamp(value, n) == (value * n) \div U8_MAX
\* min((value as usize * n) / u8::MAX as usize, n - 1).  The product is in
\* usize; it stays far below 2^32 for every palette that fits in memory.
scale_index(value, n) == Min((value * n) \div U8_MAX, n - 1)

get_char_swapped(d, t, b) ==
    LET rows == Len(d)
        cols == Len(d[1])
        top_intensity == as_u8(intensity16(t))
        bottom_intensity == as_u8(intensity16(b))
        row_index == scale_index(bottom_intensity, cols)
        col_index == scale_index(top_intensity, rows)
    IN  d[col_index + 1][row_index + 1]
\* PixtData::get_char / Style::get_char
get_char(d, t, b) ==
    LET rows == Len(d)
        cols == Len(d[1])
        top_intensity == as_u8(intensity16(t))
        bottom_intensity == as_u8(intensity16(b))
        row_index == scale_index(top_intensity, cols)
        col_index == scale_index(bottom_intensity, rows)
    IN  d[col_index + 1][row_index + 1]

get_char_single_raw_reversed(d, t, b) ==
    LET cols == Len(d[1])
        top_intensity == intensity16(t)
        bottom_intensity == intensity16(b)
        avg_intensity == ((top_intensity + bottom_intensity) % U16_MOD) \div 2
        col_index == scale_index(avg_intensity, cols)
    IN  d[1][cols - col_index]

\* PixtData::get_char_single_raw / Style::get_char_single_raw
get_char_single_raw(d, t, b) ==
    LET cols == Len(d[1])
        top_intensity == intensity16(t)
        bottom_intensity == intensity16(b)
        avg_intensity == ((top_intensity + bottom_intensity) % U16_MOD) \div 2
        col_index == scale_index(avg_intensity, cols)
    IN  d[1][col_index + 1]

\* The indices get_char computes, under the names the code gives them:
\* row_index is the column within a row, col_index the row.
get_char_indices(d, t, b) ==
    [row_index |-> scale_index(as_u8(intensity16(t)), Len(d[1])),
     col_index |-> scale_index(as_u8(intensity16(b)), Len(d))]

\* The index get_char_single_raw computes into row 0.
get_char_single_raw_index(d, t, b) ==
    scale_index(((intensity16(t) + intensity16(b)) % U16_MOD) \div 2, Len(d[1]))

\* Vec indexing self.data[r][c] succeeds; it panics otherwise.
InPalette(d, r, c) == r < Len(d) /\ c < Len(d[r + 1])

----------------------------------------------------------------------------
(* Color reducer                                                            *)

avg_color_u8(c1, c2) ==
    [i \in 1..3 |-> ((c1[i] + c2[i]) % U8_MOD) \div 2]

\* avg_color: per channel (a as u16 + b as u16) / 2, narrowed with `as u8`.
avg_color(c1, c2) ==
    [i \in 1..3 |-> as_u8(((c1[i] + c2[i]) % U16_MOD) \div 2)]

HexDigits == <<"0", "1", "2", "3", "4", "5", "6", "7",
               "8", "9", "A", "B", "C", "D", "E", "F">>

hexX(v) ==
    IF v < 16 THEN <<HexDigits[v + 1]>>
    ELSE <<HexDigits[(v \div 16) + 1], HexDigits[(v % 16) + 1]>>

\* {:02X} of one u8: two uppercase hexadecimal digits.
hex02X(v) == <<HexDigits[(v \div 16) + 1], HexDigits[(v % 16) + 1]>>

\* rgb_to_css_hex: format!("#{:02X}{:02X}{:02X}", r, g, b), one token per
\* character.
rgb_to_css_hex(c) == <<"#">> \o hex02X(c[1]) \o hex02X(c[2]) \o hex02X(c[3])

----------------------------------------------------------------------------
(* Output sink of img.rs: OutputType                                        *)

ColorTypes == {"AvgFgOnly", "AvgBgOnly", "FgTopBgDown", "BgTopFgDown", "None"}

\* enum OutputType of img.rs
OutputTypes == [fmt : {"Text", "Term", "Html", "Svg"}, color : ColorTypes]

\* The result of a sink operation: the bytes it hands to the destination and
\* how it ends when the destination accepts them ("Ok"), or "panic" for
\* todo!(), which writes nothing.
Bytes(b) == [status |-> "Ok", bytes |-> b]
Todo == [status |-> "panic", bytes |-> <<>>]

\* crossterm commands, as the ANSI sequences execute! writes for them.
SetForegroundColor(c) ==
    <<"ESC[38;2;", ToString(c[1]), ";", ToString(c[2]), ";", ToString(c[3]), "m">>
SetBackgroundColor(c) ==
    <<"ESC[48;2;", ToString(c[1]), ";", ToString(c[2]), ";", ToString(c[3]), "m">>
ResetColor == <<"ESC[0m">>
PrintCmd(v) == <<v>>

\* The document write_header formats for Html.
HtmlHeader(line_height) ==
    <<"<!DOCTYPE html>", "\n",
      "<html lang=\"en\">", "\n",
      "  <head>", "\n",
      "    <meta charset=\"UTF-8\">", "\n",
      "    <meta name=\"viewport\" content=\"width=device-width, initial-scale=1\">", "\n",
      "    <style>", "\n",
      "    * {", "\n",
      "        color: #fff;", "\n",
      "        background-color: #191919;", "\n",
      "        font-family: monospace;", "\n",
      "    }", "\n",
      "    pre {", "\n",
      "        line-height: ", line_height, ";", "\n",
      "        margin: 0;", "\n",
      "        padding: 0;", "\n",
      "        font-size: 10px;", "\n",
      "    }", "\n",
      "    </style>", "\n",
      "  </head>", "\n",
      "  <body>", "\n",
      "    ", "<pre>">>

\* b"    </pre>\n  </body>\n</html>\n"
HtmlFooter ==
    <<"    ", "</pre>", "\n", "  ", "</body>", "\n", "</html>", "\n">>

\* OutputType::write_header (img.rs)
write_header(ot, width, height) ==
    CASE ot.fmt = "Html" ->
            Bytes(HtmlHeader(IF ot.color = "None" THEN "1.2" ELSE "0.6"))
      [] ot.fmt = "Svg" -> Todo
      [] OTHER -> Bytes(<<>>)

write_footer_always(ot) == Bytes(HtmlFooter)

\* OutputType::write_footer (img.rs)
write_footer(ot) ==
    CASE ot.fmt = "Html" -> Bytes(HtmlFooter)
      [] ot.fmt = "Svg" -> Todo
      [] OTHER -> Bytes(<<>>)

\* The writer OutputType::print_line returns (img.rs), applied.
print_line(ot) ==
    CASE ot.fmt = "Text" \/ (ot.fmt = "Term" /\ ot.color = "None") -> Bytes(<<"\n">>)
      [] ot.fmt = "Term" -> Bytes(ResetColor \o PrintCmd("\n"))
      [] ot.fmt = "Html" /\ ot.color = "None" -> Bytes(<<"\n">>)
      [] ot.fmt = "Html" -> Bytes(<<"<br />", "\n">>)
      [] OTHER -> Todo

\* The writer OutputType::print_pixel returns (img.rs), applied to the cell
\* (v, c1, c2): the glyph, the top color and the bottom color.  These are
\* the bytes of the native build; on wasm32 the colored Term writers return
\* an error instead, which print treats as a write the destination fails
\* before it takes a byte.
print_pixel(ot, v, c1, c2) ==
    CASE ot.fmt = "Text" \/ (ot.fmt = "Term" /\ ot.color = "None") -> Bytes(PrintCmd(v))
      [] ot.fmt = "Term" /\ ot.color = "AvgFgOnly" ->
            Bytes(SetForegroundColor(avg_color(c1, c2)) \o PrintCmd(v))
      [] ot.fmt = "Term" /\ ot.color = "AvgBgOnly" ->
            Bytes(SetBackgroundColor(avg_color(c1, c2)) \o PrintCmd(v))
      [] ot.fmt = "Term" /\ ot.color = "FgTopBgDown" ->
            Bytes(SetBackgroundColor(c2) \o SetForegroundColor(c1) \o PrintCmd(v))
      [] ot.fmt = "Term" /\ ot.color = "BgTopFgDown" ->
            Bytes(SetBackgroundColor(c1) \o SetForegroundColor(c2) \o PrintCmd(v))
      [] ot.fmt = "Html" /\ ot.color = "None" -> Bytes(<<v>>)
      [] ot.fmt = "Html" /\ ot.color = "AvgFgOnly" ->
            Bytes(<<"<span style=\"color: ">> \o rgb_to_css_hex(avg_color(c1, c2))
                  \o <<";\">", v, "</span>">>)
      [] ot.fmt = "Html" /\ ot.color = "AvgBgOnly" ->
            Bytes(<<"<span style=\"background-color:">> \o rgb_to_css_hex(avg_color(c1, c2))
                  \o <<";\">", v, "</span>">>)
      [] ot.fmt = "Html" /\ ot.color = "FgTopBgDown" ->
            Bytes(<<"<span style=\"color:">> \o rgb_to_css_hex(c1)
                  \o <<";background-color:">> \o rgb_to_css_hex(c2)
                  \o <<";\">", v, "</span>">>)
      [] ot.fmt = "Html" /\ ot.color = "BgTopFgDown" ->
            Bytes(<<"<span style=\"color:">> \o rgb_to_css_hex(c2)
                  \o <<";background-color:">> \o rgb_to_css_hex(c1)
                  \o <<";\">", v, "</span>">>)
      [] OTHER -> Todo

----------------------------------------------------------------------------
(* Output sink of output.rs: OutputType without Text                        *)

\* enum OutputType of output.rs
OutputTypesO == [fmt : {"Term", "Html", "Svg"}, color : ColorTypes]

\* OutputType::write_header (output.rs)
o_write_header(ot, width, height) ==
    CASE ot.fmt = "Html" ->
            Bytes(HtmlHeader(IF ot.color = "None" THEN "1.2" ELSE "0.6"))
      [] ot.fmt = "Svg" -> Todo
      [] OTHER -> Bytes(<<>>)

\* OutputType::write_footer (output.rs)
o_write_footer(ot) ==
    CASE ot.fmt = "Html" -> Bytes(HtmlFooter)
      [] ot.fmt = "Svg" -> Todo
      [] OTHER -> Bytes(<<>>)

\* OutputType::print_line (output.rs), the fn it returns applied
o_print_line(ot) ==
    CASE ot.fmt = "Term" /\ ot.color = "None" -> Bytes(<<"\n">>)
      [] ot.fmt = "Term" -> Bytes(ResetColor \o PrintCmd("\n"))
      [] ot.fmt = "Html" /\ ot.color = "None" -> Bytes(<<"\n">>)
      [] ot.fmt = "Html" -> Bytes(<<"<br />", "\n">>)
      [] ot.fmt = "Svg" /\ ot.color = "None" ->
            Bytes(<<"<tspan x=\"0\" dy=\"17\">", "/", "</tspan>", "\n">>)
      [] OTHER -> Todo

\* OutputType::print_pixel (output.rs), the fn it returns applied
o_print_pixel(ot, v, c1, c2) ==
    CASE ot.fmt = "Term" /\ ot.color = "None" -> Bytes(PrintCmd(v))
      [] ot.fmt = "Term" /\ ot.color = "AvgFgOnly" ->
            Bytes(SetForegroundColor(avg_color(c1, c2)) \o PrintCmd(v))
      [] ot.fmt = "Term" /\ ot.color = "AvgBgOnly" ->
            Bytes(SetBackgroundColor(avg_color(c1, c2)) \o PrintCmd(v))
      [] ot.fmt = "Term" /\ ot.color = "FgTopBgDown" ->
            Bytes(SetBackgroundColor(c2) \o SetForegroundColor(c1) \o PrintCmd(v))
      [] ot.fmt = "Term" /\ ot.color = "BgTopFgDown" ->
            Bytes(SetBackgroundColor(c1) \o SetForegroundColor(c2) \o PrintCmd(v))
      [] ot.fmt = "Html" /\ ot.color = "None" -> Bytes(<<v>>)
      [] ot.fmt = "Html" /\ ot.color = "AvgFgOnly" ->
            Bytes(<<"<span style=\"color: ">> \o rgb_to_css_hex(avg_color(c1, c2))
                  \o <<";\">", v, "</span>">>)
      [] ot.fmt = "Html" /\ ot.color = "AvgBgOnly" ->
            Bytes(<<"<span style=\"background-color: ">> \o rgb_to_css_hex(avg_color(c1, c2))
                  \o <<";\">", v, "</span>">>)
      [] ot.fmt = "Html" /\ ot.color = "FgTopBgDown" ->
            Bytes(<<"<span style=\"color: ">> \o rgb_to_css_hex(c1)
                  \o <<";background-color: ">> \o rgb_to_css_hex(c2)
                  \o <<";\">", v, "</span>">>)
      [] ot.fmt = "Html" /\ ot.color = "BgTopFgDown" ->
            Bytes(<<"<span style=\"color: ">> \o rgb_to_css_hex(c2)
                  \o <<";background-color: ">> \o rgb_to_css_hex(c1)
                  \o <<";\">", v, "</span>">>)
      [] OTHER -> Todo

----------------------------------------------------------------------------
(* OutputType::from(path): the output type chosen from a file name          *)

\* Option<&OsStr> / Option<&str>
None == [some |-> FALSE, v |-> <<>>]
Some(s) == [some |-> TRUE, v |-> s]
unwrap_or_default(o) == IF o.some THEN o.v ELSE <<>>

\* The index of the last occurrence of c in s, 0 when there is none.
LastIndexOf(s, c) ==
    LET I == {i \in 1..Len(s) : s[i] = c}
    IN  IF I = {} THEN 0 ELSE CHOOSE i \in I : \A j \in I : j <= i

\* Path::file_name of a path that ends in a normal component.
file_name(path) == SubSeq(path, LastIndexOf(path, "/") + 1, Len(path))

\* Path::extension: the part of the file name after its last dot; none when
\* the file name has no dot or only a leading one.
extension(path) ==
    LET f == file_name(path)
        i == LastIndexOf(f, ".")
    IN  IF i <= 1 THEN None ELSE Some(SubSeq(f, i + 1, Len(f)))

\* OsStr::to_str: none when the name is not valid Unicode ("xFF" stands for
\* a byte that is not).
to_str(s) == IF \E i \in 1..Len(s) : s[i] = "xFF" THEN None ELSE Some(s)

UpperCase == <<"H", "T", "M", "L", "S", "V", "G", "X", "Z">>
LowerCase == <<"h", "t", "m", "l", "s", "v", "g", "x", "z">>

\* char::to_lowercase on the characters of the model.
lower(c) ==
    IF \E i \in 1..Len(UpperCase) : UpperCase[i] = c
    THEN LowerCase[CHOOSE i \in 1..Len(UpperCase) : UpperCase[i] = c]
    ELSE c

to_lowercase_identity(s) == s

\* str::to_lowercase
to_lowercase(s) == [i \in 1..Len(s) |-> lower(s[i])]

\* impl From<T: AsRef<Path>> for OutputType (img.rs)
OutputType_from(path) ==
    LET ext == unwrap_or_default(to_str(unwrap_or_default(extension(path))))
        color == "None"
        lc == to_lowercase(ext)
    IN  CASE lc = <<"h", "t", "m", "l">> \/ lc = <<"h", "t", "m">> ->
                [fmt |-> "Html", color |-> color]
          [] lc = <<"s", "v", "g">> -> [fmt |-> "Svg", color |-> color]
          [] OTHER -> [fmt |-> "Term", color |-> color]

\* impl From<T: AsRef<Path>> for OutputType (output.rs)
o_OutputType_from(path) ==
    LET ext == unwrap_or_default(to_str(unwrap_or_default(extension(path))))
        color == "None"
        lc == to_lowercase(ext)
    IN  CASE lc = <<"h", "t", "m", "l">> \/ lc = <<"h", "t", "m">> ->
                [fmt |-> "Html", color |-> color]
          [] lc = <<"s", "v", "g">> -> [fmt |-> "Svg", color |-> color]
          [] OTHER -> [fmt |-> "Term", color |-> color]

----------------------------------------------------------------------------
(* The values of the variables an operation does not use.                   *)

NoImg == [width |-> 0, height |-> 0, pat |-> "black"]
NoInner == [x |-> 0, y |-> 0]
NoCall == [fn |-> "none"]
TextNone == [fmt |-> "Text", color |-> "None"]
NoPrev == [n |-> 0, out |-> <<>>, ret |-> "none"]

----------------------------------------------------------------------------
(* SpecGlyph: one call of a glyph lookup on a palette and two colors.       *)

GlyphInit ==
    /\ pc = "call"
    /\ data \in Palettes
    /\ call \in [fn : {"get_char", "get_char_single_raw"}, t : Colors, b : Colors]
    /\ ch = ""
    /\ img = NoImg /\ out_type = TextNone /\ y = 0 /\ inner = NoInner
    /\ out = <<>> /\ ops = <<>> /\ ret = "none" /\ prev = NoPrev

CallGetChar ==
    /\ pc = "call" /\ call.fn = "get_char"
    /\ LET ix == get_char_indices(data, call.t, call.b)
       IN  /\ ops' = <<[op |-> "index", row |-> ix.col_index, col |-> ix.row_index]>>
           /\ IF InPalette(data, ix.col_index, ix.row_index)
              THEN ch' = get_char(data, call.t, call.b) /\ ret' = ret
              ELSE ch' = ch /\ ret' = "panic"
    /\ pc' = "returned"
    /\ UNCHANGED <<img, data, out_type, y, inner, out, call, prev>>

CallGetCharSingleRaw ==
    /\ pc = "call" /\ call.fn = "get_char_single_raw"
    /\ LET ix == get_char_single_raw_index(data, call.t, call.b)
       IN  /\ ops' = <<[op |-> "index", row |-> 0, col |-> ix]>>
           /\ IF InPalette(data, 0, ix)
              THEN ch' = get_char_single_raw(data, call.t, call.b) /\ ret' = ret
              ELSE ch' = ch /\ ret' = "panic"
    /\ pc' = "returned"
    /\ UNCHANGED <<img, data, out_type, y, inner, out, call, prev>>

GlyphNext == CallGetChar \/ CallGetCharSingleRaw

SpecGlyph == GlyphInit /\ [][GlyphNext]_vars

----------------------------------------------------------------------------
(* SpecIndex: the mapping of one intensity to an index of a palette         *)
(* dimension n, as get_char and get_char_single_raw compute it.             *)

IndexInit ==
    /\ pc = "call"
    /\ call \in [fn : {"scale_index"}, value : 0..U8_MAX, n : 1..MaxN]
    /\ ch = 0
    /\ data = <<>>
    /\ img = NoImg /\ out_type = TextNone /\ y = 0 /\ inner = NoInner
    /\ out = <<>> /\ ops = <<>> /\ ret = "none" /\ prev = NoPrev

CallScaleIndex ==
    /\ pc = "call" /\ call.fn = "scale_index"
    /\ ch' = scale_index(call.value, call.n)
    /\ pc' = "returned"
    /\ UNCHANGED <<img, data, out_type, y, inner, out, ops, ret, call, prev>>

IndexNext == CallScaleIndex

SpecIndex == IndexInit /\ [][IndexNext]_vars

----------------------------------------------------------------------------
(* Spec: one call of render / PixtImg::print on an image.                   *)

Patterns == {"black", "white", "grad"}

PatColors == <<<<0, 0, 0>>, <<255, 0, 0>>, <<127, 127, 127>>, <<255, 255, 255>>>>

\* img.get_pixel(x, y).to_rgb(): the pixel of the decoded image.
get_pixel(im, px, py) ==
    CASE im.pat = "black" -> <<0, 0, 0>>
      [] im.pat = "white" -> <<255, 255, 255>>
      [] OTHER -> PatColors[((px + 2 * py) % Len(PatColors)) + 1]

\* The one-glyph palette of the colored Pixel style, and a custom ramp of
\* characters that are special in HTML.
PixelOne == << <<"u2580">> >>
CustomHtml == << <<"<", "&", ">">> >>

\* Palettes PixtImg::new accepts although they hold no glyph: no row
\* (Vec::<Vec<char>>::new()) and one row of no characters (Vec::<char>::new()).
NoRows == <<>>
ZeroWidth == << <<>> >>

Malformed(d) == Len(d) = 0 \/ \E i \in 1..Len(d) : Len(d[i]) = 0

RenderPalettes == {Ascii, Braills, PixelOne, CustomHtml, NoRows, ZeroWidth}

\* A glyph lookup on a palette without glyphs panics: self.data[0] on no
\* row; on an empty row `cols - 1` overflows (debug build) or wraps and the
\* index into the empty row is out of bounds (release build).
lookup_panics(d) == Len(d) = 0 \/ Len(d[1]) = 0

\* The lookup ItrImgInner::next chooses: self.pixt_img.data.len() == 1
lookup_fn(d) == IF Len(d) = 1 THEN "get_char_single_raw" ELSE "get_char"

\* self.y += 1 in ItrImgOuter::next
OuterStep == 1

Op(name, px, py, pyb) == [op |-> name, x |-> px, y |-> py, yb |-> pyb, ok |-> TRUE]

WriteIgnoringError(r, op, next_pc) ==
    IF r.status = "panic"
    THEN /\ pc' = "done" /\ ret' = "panic" /\ out' = out
         /\ ops' = Append(ops, [op EXCEPT !.ok = FALSE])
    ELSE \E k \in 0..Len(r.bytes) :
            /\ out' = out \o SubSeq(r.bytes, 1, k)
            /\ ops' = Append(ops, [op EXCEPT !.ok = (k = Len(r.bytes))])
            /\ pc' = next_pc /\ ret' = ret
\* One sink operation of print followed by `?`.  todo!() panics.  Otherwise
\* the destination accepts all the bytes and print goes on, or it fails
\* after accepting a prefix of them and print returns that error.  An
\* operation that hands over no bytes performs no write and cannot fail.
Write(r, op, next_pc) ==
    IF r.status = "panic"
    THEN /\ pc' = "done" /\ ret' = "panic" /\ out' = out
         /\ ops' = Append(ops, [op EXCEPT !.ok = FALSE])
    ELSE \E k \in 0..Len(r.bytes) :
            /\ out' = out \o SubSeq(r.bytes, 1, k)
            /\ ops' = Append(ops, [op EXCEPT !.ok = (k = Len(r.bytes))])
            /\ IF k = Len(r.bytes)
               THEN pc' = next_pc /\ ret' = ret
               ELSE pc' = "done" /\ ret' = "Err"

Init ==
    /\ pc = "header"
    /\ img \in [width : 0..MaxW, height : 0..MaxH, pat : Patterns]
    /\ data \in RenderPalettes
    /\ out_type \in OutputTypes
    /\ y = 0 /\ inner = NoInner
    /\ out = <<>> /\ ops = <<>> /\ ret = "none" /\ prev = NoPrev
    /\ call = NoCall /\ ch = ""

\* self.out_type.write_header(img.width(), img.height(), &mut out)?
Header ==
    /\ pc = "header"
    /\ Write(write_header(out_type, img.width, img.height), Op("write_header", 0, 0, 0), "outer")
    /\ UNCHANGED <<img, data, out_type, y, inner, call, ch, prev>>

OuterNextShort ==
    /\ pc = "outer"
    /\ IF y + 2 >= img.height
       THEN /\ pc' = "done" /\ ret' = "Ok"
            /\ UNCHANGED <<y, inner>>
       ELSE /\ y' = y + OuterStep
            /\ inner' = [x |-> 0, y |-> y]
            /\ pc' = "inner" /\ ret' = ret
    /\ UNCHANGED <<img, data, out_type, out, ops, call, ch, prev>>

\* ItrImgOuter::next, and the end of print when it returns None
OuterNext ==
    /\ pc = "outer"
    /\ IF y + 1 >= img.height
       THEN /\ pc' = "done" /\ ret' = "Ok"
            /\ UNCHANGED <<y, inner>>
       ELSE /\ y' = y + OuterStep
            /\ inner' = [x |-> 0, y |-> y]
            /\ pc' = "inner" /\ ret' = ret
    /\ UNCHANGED <<img, data, out_type, out, ops, call, ch, prev>>

\* ItrImgInner::next and, for the cell it yields, print(&mut out, p)?
InnerNext ==
    /\ pc = "inner"
    /\ IF inner.x >= img.width \/ inner.y >= img.height
       THEN /\ pc' = "line"
            /\ UNCHANGED <<inner, out, ops, ret, call, ch>>
       ELSE IF inner.y + 1 >= img.height
       THEN \* get_pixel panics on a row outside the image
            /\ pc' = "done" /\ ret' = "panic"
            /\ UNCHANGED <<inner, out, ops, call, ch>>
       ELSE IF lookup_panics(data)
       THEN /\ inner' = [inner EXCEPT !.x = @ + 1]
            /\ call' = [call EXCEPT !.fn = lookup_fn(data)]
            /\ pc' = "done" /\ ret' = "panic"
            /\ UNCHANGED <<out, ops, ch>>
       ELSE LET t == get_pixel(img, inner.x, inner.y)
                b == get_pixel(img, inner.x, inner.y + 1)
                v == IF lookup_fn(data) = "get_char_single_raw"
                     THEN get_char_single_raw(data, t, b)
                     ELSE get_char(data, t, b)
            IN  /\ inner' = [inner EXCEPT !.x = @ + 1]
                /\ call' = [call EXCEPT !.fn = lookup_fn(data)]
                /\ ch' = v
                /\ Write(print_pixel(out_type, v, t, b),
                         Op("write_cell", inner.x, inner.y, inner.y + 1), "inner")
    /\ UNCHANGED <<img, data, out_type, y, prev>>

\* self.out_type.print_line()(&mut out)?
PrintLine ==
    /\ pc = "line"
    /\ Write(print_line(out_type), Op("write_line_end", 0, inner.y, inner.y + 1), "outer")
    /\ UNCHANGED <<img, data, out_type, y, inner, call, ch, prev>>

Next == Header \/ OuterNext \/ InnerNext \/ PrintLine

Spec == Init /\ [][Next]_vars

----------------------------------------------------------------------------
(* SpecStyle: PixtImg::new(style, out_type) for a preset of ImgStyle,       *)
(* followed by one call of print.                                           *)

ImgStyles == {"Ascii", "Block", "Pixel", "Braills", "Dots"}

\* impl IntoPixtData for ImgStyle
into_pixt_data(style) ==
    CASE style = "Ascii" -> Ascii
      [] style = "Block" -> Block
      [] style = "Pixel" -> PixelRamp
      [] style = "Braills" -> Braills
      [] style = "Dots" -> Dots

StyleInit ==
    /\ pc = "header"
    /\ img \in [width : 0..MaxW, height : 0..MaxH, pat : Patterns]
    /\ out_type \in OutputTypes
    /\ \E style \in ImgStyles :
            /\ call = [fn |-> "none", style |-> style]
            /\ data = into_pixt_data(style)
    /\ y = 0 /\ inner = NoInner
    /\ out = <<>> /\ ops = <<>> /\ ret = "none"
    /\ ch = "" /\ prev = NoPrev

StyleNext == Header \/ OuterNext \/ InnerNext \/ PrintLine

SpecStyle == StyleInit /\ [][StyleNext]_vars

----------------------------------------------------------------------------
(* SpecCli: Cli::run of cli.rs from the choice of the style on: the palette *)
(* and the two writers of (style, colored), then Style::print on the        *)
(* resized image.  `call.build` is the build profile, which decides what    *)
(* `img.height() - 1` does on a height of 0.                                *)

StyleOps == {"Pixel", "Ascii", "Block", "Braills", "Dots", "Custom"}

\* The palettes Cli::run builds for (style, colored); for Custom, from the
\* characters of the first argument, which may be none.
cli_styles(style, colored) ==
    CASE style = "Ascii" -> {Ascii}
      [] style = "Block" -> {Block}
      [] style = "Pixel" -> IF colored THEN {PixelOne} ELSE {PixelRamp}
      [] style = "Braills" -> {Braills}
      [] style = "Dots" -> {Dots}
      [] style = "Custom" -> {CustomHtml, ZeroWidth}

\* The print_pixel closure Cli::run passes for (style, colored), applied.
cli_print_pixel(style, colored, t, b, v) ==
    IF ~colored THEN Bytes(PrintCmd(v))
    ELSE IF style = "Pixel"
    THEN Bytes(SetForegroundColor(t) \o SetBackgroundColor(b) \o PrintCmd(v))
    ELSE Bytes(SetForegroundColor(avg_color(t, b)) \o PrintCmd(v))

\* The line closure Cli::run passes for (style, colored), applied.
cli_line(style, colored) ==
    IF colored /\ style \in {"Ascii", "Pixel"}
    THEN Bytes(ResetColor \o PrintCmd("\n"))
    ELSE Bytes(PrintCmd("\n"))

\* .step_by(2) of Style::print
CliStep == 2

CliInit ==
    /\ pc = "rows"
    /\ img \in [width : 0..MaxW, height : 0..MaxH, pat : Patterns]
    /\ call \in [fn : {"none"}, style : StyleOps, colored : BOOLEAN,
                 build : {"debug", "release"}]
    /\ data \in cli_styles(call.style, call.colored)
    /\ out_type = TextNone
    /\ y = 0 /\ inner = NoInner
    /\ out = <<>> /\ ops = <<>> /\ ret = "none"
    /\ ch = "" /\ prev = NoPrev

CliRowsToLastRow ==
    /\ pc = "rows"
    /\ IF img.height = 0 /\ call.build = "debug"
       THEN pc' = "done" /\ ret' = "panic" /\ UNCHANGED inner
       ELSE IF img.height = 0
       THEN /\ y < MaxWrappedY
            /\ pc' = "cells" /\ ret' = ret /\ inner' = [x |-> 0, y |-> y]
       ELSE IF y < img.height
       THEN pc' = "cells" /\ ret' = ret /\ inner' = [x |-> 0, y |-> y]
       ELSE pc' = "done" /\ ret' = "Ok" /\ UNCHANGED inner
    /\ UNCHANGED <<img, data, out_type, y, out, ops, call, ch, prev>>

\* for y in (0..img.height() - 1).step_by(2): the next y, or the end of
\* print.  On a height of 0 the subtraction panics in a debug build and
\* wraps to u32::MAX in a release build.
CliRows ==
    /\ pc = "rows"
    /\ IF img.height = 0 /\ call.build = "debug"
       THEN pc' = "done" /\ ret' = "panic" /\ UNCHANGED inner
       ELSE IF img.height = 0
       THEN /\ y < MaxWrappedY
            /\ pc' = "cells" /\ ret' = ret /\ inner' = [x |-> 0, y |-> y]
       ELSE IF y < img.height - 1
       THEN pc' = "cells" /\ ret' = ret /\ inner' = [x |-> 0, y |-> y]
       ELSE pc' = "done" /\ ret' = "Ok" /\ UNCHANGED inner
    /\ UNCHANGED <<img, data, out_type, y, out, ops, call, ch, prev>>

\* for x in 0..img.width(): one cell, read, looked up and handed to
\* print_pixel(..)?, or the end of the row
CliCell ==
    /\ pc = "cells"
    /\ IF inner.x >= img.width
       THEN /\ pc' = "line"
            /\ UNCHANGED <<inner, out, ops, ret, ch>>
       ELSE IF inner.y + 1 >= img.height
       THEN \* get_pixel panics on a row outside the image
            /\ pc' = "done" /\ ret' = "panic"
            /\ UNCHANGED <<inner, out, ops, ch>>
       ELSE IF lookup_panics(data)
       THEN /\ pc' = "done" /\ ret' = "panic"
            /\ UNCHANGED <<inner, out, ops, ch>>
       ELSE LET t == get_pixel(img, inner.x, inner.y)
                b == get_pixel(img, inner.x, inner.y + 1)
                v == IF lookup_fn(data) = "get_char_single_raw"
                     THEN get_char_single_raw(data, t, b)
                     ELSE get_char(data, t, b)
            IN  /\ inner' = [inner EXCEPT !.x = @ + 1]
                /\ ch' = v
                /\ Write(cli_print_pixel(call.style, call.colored, t, b, v),
                         Op("write_cell", inner.x, inner.y, inner.y + 1), "cells")
    /\ UNCHANGED <<img, data, out_type, y, call, prev>>

\* line(stdout)? and the step of the row loop
CliLine ==
    /\ pc = "line"
    /\ Write(cli_line(call.style, call.colored),
             Op("write_line_end", 0, inner.y, inner.y + 1), "rows")
    /\ y' = y + CliStep
    /\ UNCHANGED <<img, data, out_type, inner, call, ch, prev>>

CliNext == CliRows \/ CliCell \/ CliLine

SpecCli == CliInit /\ [][CliNext]_vars

----------------------------------------------------------------------------
(* SpecMain: the render loop of main.rs on the resized image.               *)

\* execute!(..).unwrap(): the destination accepts all the bytes, or it fails
\* after a prefix of them and unwrap panics.
WriteUnwrap(r, op, next_pc) ==
    \E k \in 0..Len(r.bytes) :
        /\ out' = out \o SubSeq(r.bytes, 1, k)
        /\ ops' = Append(ops, [op EXCEPT !.ok = (k = Len(r.bytes))])
        /\ IF k = Len(r.bytes)
           THEN pc' = next_pc /\ ret' = ret
           ELSE pc' = "done" /\ ret' = "panic"

\* .step_by(2) of main
MainStep == 2

MainInit ==
    /\ pc = "rows"
    /\ img \in [width : 0..MaxW, height : 0..MaxH, pat : Patterns]
    /\ call = [fn |-> "none", t |-> <<0, 0, 0>>, b |-> <<0, 0, 0>>]
    /\ data = PixelOne
    /\ out_type = TextNone
    /\ y = 0 /\ inner = NoInner
    /\ out = <<>> /\ ops = <<>> /\ ret = "none"
    /\ ch = "" /\ prev = NoPrev

\* for y in (0..img_y).step_by(2): the next y, or Ok(()) after the loop
MainRows ==
    /\ pc = "rows"
    /\ IF y < img.height
       THEN pc' = "cells" /\ ret' = ret /\ inner' = [x |-> 0, y |-> y]
       ELSE pc' = "done" /\ ret' = "Ok" /\ UNCHANGED inner
    /\ UNCHANGED <<img, data, out_type, y, out, ops, call, ch, prev>>

MainCellNoClamp ==
    /\ pc = "cells"
    /\ IF inner.x >= img.width
       THEN /\ pc' = "line"
            /\ UNCHANGED <<inner, out, ops, ret, call, ch>>
       ELSE LET yb == inner.y + 1
            IN  IF yb >= img.height
                THEN /\ pc' = "done" /\ ret' = "panic"
                     /\ ops' = Append(ops, [Op("read", inner.x, inner.y, yb)
                                                EXCEPT !.ok = FALSE])
                     /\ UNCHANGED <<inner, out, call, ch>>
                ELSE LET t == get_pixel(img, inner.x, inner.y)
                         b == get_pixel(img, inner.x, yb)
                     IN  /\ inner' = [inner EXCEPT !.x = @ + 1]
                         /\ call' = [call EXCEPT !.t = t, !.b = b]
                         /\ ch' = "u2580"
                         /\ WriteUnwrap(Bytes(SetForegroundColor(t) \o SetBackgroundColor(b)
                                                  \o PrintCmd("u2580")),
                                        Op("write_cell", inner.x, inner.y, yb), "cells")
    /\ UNCHANGED <<img, data, out_type, y, prev>>

\* for x in 0..img_x: one cell, its top pixel from row y and its bottom
\* pixel from row min(y + 1, img_y - 1), written with the upper half block
MainCell ==
    /\ pc = "cells"
    /\ IF inner.x >= img.width
       THEN /\ pc' = "line"
            /\ UNCHANGED <<inner, out, ops, ret, call, ch>>
       ELSE LET yb == Min(inner.y + 1, img.height - 1)
            IN  IF yb >= img.height
                THEN /\ pc' = "done" /\ ret' = "panic"
                     /\ ops' = Append(ops, [Op("read", inner.x, inner.y, yb)
                                                EXCEPT !.ok = FALSE])
                     /\ UNCHANGED <<inner, out, call, ch>>
                ELSE LET t == get_pixel(img, inner.x, inner.y)
                         b == get_pixel(img, inner.x, yb)
                     IN  /\ inner' = [inner EXCEPT !.x = @ + 1]
                         /\ call' = [call EXCEPT !.t = t, !.b = b]
                         /\ ch' = "u2580"
                         /\ WriteUnwrap(Bytes(SetForegroundColor(t) \o SetBackgroundColor(b)
                                                  \o PrintCmd("u2580")),
                                        Op("write_cell", inner.x, inner.y, yb), "cells")
    /\ UNCHANGED <<img, data, out_type, y, prev>>

\* execute!(stdout, ResetColor, Print("\n")).unwrap() and the step of the
\* row loop
MainLine ==
    /\ pc = "line"
    /\ WriteUnwrap(Bytes(ResetColor \o PrintCmd("\n")),
                   Op("write_line_end", 0, inner.y, inner.y), "rows")
    /\ y' = y + MainStep
    /\ UNCHANGED <<img, data, out_type, inner, call, ch, prev>>

MainNext == MainRows \/ MainCell \/ MainLine

SpecMain == MainInit /\ [][MainNext]_vars

----------------------------------------------------------------------------
(* SpecIter: the iterators of PixtData::chars driven by a caller that may   *)
(* call next() on the outer iterator and on the latest inner iterator in    *)
(* any order and any number of times.  `call` keeps what the caller saw:    *)
(* the last result of each iterator, whether it has ever returned None, and *)
(* how many items it has yielded.                                           *)

IterPalettes == {Ascii, Braills}

NoIter == [fn |-> "none", has_inner |-> FALSE,
           outer_last |-> "none", outer_none |-> FALSE, rows |-> 0,
           inner_last |-> "none", inner_none |-> FALSE, items |-> 0]

IterInit ==
    /\ pc = "iter"
    /\ img \in [width : 0..MaxW, height : 0..MaxH, pat : Patterns]
    /\ data \in IterPalettes
    /\ y = 0 /\ inner = NoInner
    /\ call = NoIter
    /\ out_type = TextNone
    /\ out = <<>> /\ ops = <<>> /\ ret = "none"
    /\ ch = "" /\ prev = NoPrev

IterOuterNextRestarting ==
    /\ pc = "iter"
    /\ IF y + 1 >= img.height
       THEN /\ call' = [call EXCEPT !.outer_last = "None", !.outer_none = TRUE]
            /\ y' = 0
            /\ UNCHANGED inner
       ELSE /\ y' = y + 1
            /\ inner' = [x |-> 0, y |-> y]
            /\ call' = [call EXCEPT !.outer_last = "Some", !.rows = @ + 1,
                                     !.has_inner = TRUE, !.inner_last = "none",
                                     !.inner_none = FALSE, !.items = 0]
    /\ UNCHANGED <<pc, img, data, out_type, out, ops, ret, ch, prev>>

IterOuterNextOffByOne ==
    /\ pc = "iter"
    /\ IF y >= img.height
       THEN /\ call' = [call EXCEPT !.outer_last = "None", !.outer_none = TRUE]
            /\ UNCHANGED <<y, inner>>
       ELSE /\ y' = y + 1
            /\ inner' = [x |-> 0, y |-> y]
            /\ call' = [call EXCEPT !.outer_last = "Some", !.rows = @ + 1,
                                     !.has_inner = TRUE, !.inner_last = "none",
                                     !.inner_none = FALSE, !.items = 0]
    /\ UNCHANGED <<pc, img, data, out_type, out, ops, ret, ch, prev>>

\* ItrImgOuter::next
IterOuterNext ==
    /\ pc = "iter"
    /\ IF y + 1 >= img.height
       THEN /\ call' = [call EXCEPT !.outer_last = "None", !.outer_none = TRUE]
            /\ UNCHANGED <<y, inner>>
       ELSE /\ y' = y + 1
            /\ inner' = [x |-> 0, y |-> y]
            /\ call' = [call EXCEPT !.outer_last = "Some", !.rows = @ + 1,
                                     !.has_inner = TRUE, !.inner_last = "none",
                                     !.inner_none = FALSE, !.items = 0]
    /\ UNCHANGED <<pc, img, data, out_type, out, ops, ret, ch, prev>>

\* ItrImgInner::next on the inner iterator the outer one returned last
IterInnerNext ==
    /\ pc = "iter" /\ call.has_inner
    /\ IF inner.x >= img.width \/ inner.y >= img.height
       THEN /\ call' = [call EXCEPT !.inner_last = "None", !.inner_none = TRUE]
            /\ UNCHANGED <<pc, inner, ret, ops, ch>>
       ELSE IF inner.y + 1 >= img.height
       THEN \* get_pixel panics on a row outside the image
            /\ pc' = "done" /\ ret' = "panic"
            /\ UNCHANGED <<inner, call, ops, ch>>
       ELSE LET t == get_pixel(img, inner.x, inner.y)
                b == get_pixel(img, inner.x, inner.y + 1)
            IN  /\ inner' = [inner EXCEPT !.x = @ + 1]
                /\ ch' = IF lookup_fn(data) = "get_char_single_raw"
                          THEN get_char_single_raw(data, t, b)
                          ELSE get_char(data, t, b)
                /\ ops' = <<Op("read", inner.x, inner.y, inner.y + 1)>>
                /\ call' = [call EXCEPT !.inner_last = "Some", !.items = @ + 1]
                /\ UNCHANGED <<pc, ret>>
    /\ UNCHANGED <<img, data, out_type, y, out, prev>>

IterNext == IterOuterNext \/ IterInnerNext

SpecIter == IterInit /\ [][IterNext]_vars

----------------------------------------------------------------------------
(* SpecTwice: print called twice, one call after the other, on the same     *)
(* image, palette and output type without color, each on a destination of   *)
(* its own.                                                                 *)

TwiceInit ==
    /\ Init
    /\ out_type.color = "None"

RerunKeepingY ==
    /\ pc = "done" /\ prev.n = 0
    /\ prev' = [n |-> 1, out |-> out, ret |-> ret]
    /\ pc' = "header" /\ inner' = NoInner
    /\ out' = <<>> /\ ops' = <<>> /\ ret' = "none"
    /\ call' = NoCall /\ ch' = ""
    /\ UNCHANGED <<img, data, out_type, y>>

\* The second call of print: self.chars(img) builds a new ItrImgOuter with
\* y: 0, and nothing of the first call is kept but its result.
Rerun ==
    /\ pc = "done" /\ prev.n = 0
    /\ prev' = [n |-> 1, out |-> out, ret |-> ret]
    /\ pc' = "header" /\ y' = 0 /\ inner' = NoInner
    /\ out' = <<>> /\ ops' = <<>> /\ ret' = "none"
    /\ call' = NoCall /\ ch' = ""
    /\ UNCHANGED <<img, data, out_type>>

TwiceNext == Header \/ OuterNext \/ InnerNext \/ PrintLine \/ Rerun

SpecTwice == TwiceInit /\ [][TwiceNext]_vars

----------------------------------------------------------------------------
(* SpecFrom: one call of OutputType::from, of img.rs or of output.rs, on a  *)
(* path made of a directory, a stem and possibly a dot and an extension.    *)

Dirs == {<<>>, <<"d", "/">>, <<"d", ".", "s", "v", "g", "/">>, <<".", "/">>}
Stems == {<<"a">>, <<".", "a">>, <<"a", ".", "h", "t", "m", "l">>, <<>>}
ExtStrings ==
    {<<"h", "t", "m", "l">>,
     <<"H", "T", "M", "L">>,
     <<"H", "t", "m", "l">>,
     <<"h", "T", "m", "L">>,
     <<"h", "t", "m">>,
     <<"H", "T", "M">>,
     <<"H", "t", "m">>,
     <<"s", "v", "g">>,
     <<"S", "V", "G">>,
     <<"s", "V", "g">>,
     <<"t", "x", "t">>,
     <<"p", "n", "g">>,
     <<"h", "t">>,
     <<"h", "t", "m", "l", "x">>,
     <<"x", "h", "t", "m", "l">>,
     <<"s", "v", "g", "z">>,
     <<"s", "v">>,
     <<>>,
     <<"s", "v", "g", "xFF">>}
Exts == {None} \cup {Some(e) : e \in ExtStrings}

\* The path the parts spell.  A part with a dot of its own is followed by
\* an extension, and the path names a file.
PathOf(c) == c.dir \o c.stem \o (IF c.ext.some THEN <<".">> \o c.ext.v ELSE <<>>)

FromCalls ==
    {c \in [fn : {"from"}, mod : {"img", "output"}, dir : Dirs, stem : Stems, ext : Exts] :
        /\ Len(c.stem) > 1 => c.ext.some
        /\ Len(c.stem) = 0 => c.ext.some}

FromInit ==
    /\ pc = "call"
    /\ call \in FromCalls
    /\ out_type = TextNone
    /\ ch = "" /\ data = <<>>
    /\ img = NoImg /\ y = 0 /\ inner = NoInner
    /\ out = <<>> /\ ops = <<>> /\ ret = "none" /\ prev = NoPrev

CallFrom ==
    /\ pc = "call" /\ call.fn = "from"
    /\ out_type' = IF call.mod = "img" THEN OutputType_from(PathOf(call))
                                        ELSE o_OutputType_from(PathOf(call))
    /\ pc' = "returned"
    /\ UNCHANGED <<img, data, y, inner, out, ops, ret, call, ch, prev>>

FromNext == CallFrom

SpecFrom == FromInit /\ [][FromNext]_vars

----------------------------------------------------------------------------
(* SpecHex: one call of rgb_to_css_hex on a color.                          *)

HexLevels == {0, 1, 9, 10, 15, 16, 160, 171, 254, 255}

HexInit ==
    /\ pc = "call"
    /\ call \in [fn : {"rgb_to_css_hex"}, c : [1..3 -> HexLevels]]
    /\ out_type = TextNone
    /\ ch = "" /\ data = <<>>
    /\ img = NoImg /\ y = 0 /\ inner = NoInner
    /\ out = <<>> /\ ops = <<>> /\ ret = "none" /\ prev = NoPrev

CallRgbToCssHex ==
    /\ pc = "call" /\ call.fn = "rgb_to_css_hex"
    /\ out' = rgb_to_css_hex(call.c)
    /\ pc' = "returned"
    /\ UNCHANGED <<img, data, out_type, y, inner, ops, ret, call, ch, prev>>

HexNext == CallRgbToCssHex

SpecHex == HexInit /\ [][HexNext]_vars

----------------------------------------------------------------------------
(* SpecSink: one sink operation of an OutputType, of img.rs or of           *)
(* output.rs, on a destination that accepts every byte.                     *)

SinkOps == {"write_header", "print_pixel", "print_line", "write_footer"}
SinkGlyphs == {"a", "<", "&", "u2580"}
SinkColors == {<<0, 0, 0>>, <<255, 0, 16>>, <<9, 171, 255>>}
SinkDims == {0, 80}

SinkInit ==
    /\ pc = "call"
    /\ call \in [mod : {"img", "output"}, op : SinkOps, v : SinkGlyphs,
                 c1 : SinkColors, c2 : SinkColors,
                 width : SinkDims, height : SinkDims]
    /\ out_type \in (IF call.mod = "img" THEN OutputTypes ELSE OutputTypesO)
    /\ out = <<>> /\ ret = "none"
    /\ img = NoImg /\ data = <<>> /\ y = 0 /\ inner = NoInner
    /\ ops = <<>> /\ ch = "" /\ prev = NoPrev

SinkReturn(r) ==
    /\ out' = r.bytes
    /\ ret' = r.status
    /\ pc' = "returned"
    /\ UNCHANGED <<img, data, out_type, y, inner, ops, call, ch, prev>>

SinkWriteHeader ==
    /\ pc = "call" /\ call.op = "write_header"
    /\ SinkReturn(IF call.mod = "img"
                  THEN write_header(out_type, call.width, call.height)
                  ELSE o_write_header(out_type, call.width, call.height))

SinkPrintPixelTextAsTerm ==
    /\ pc = "call" /\ call.op = "print_pixel"
    /\ LET ot == IF out_type.fmt = "Text" THEN [out_type EXCEPT !.fmt = "Term"]
                                            ELSE out_type
       IN  SinkReturn(IF call.mod = "img"
                      THEN print_pixel(ot, call.v, call.c1, call.c2)
                      ELSE o_print_pixel(ot, call.v, call.c1, call.c2))

SinkPrintPixelSwapped ==
    /\ pc = "call" /\ call.op = "print_pixel"
    /\ SinkReturn(IF call.mod = "img"
                  THEN print_pixel(out_type, call.v, call.c2, call.c1)
                  ELSE o_print_pixel(out_type, call.v, call.c2, call.c1))

SinkPrintPixel ==
    /\ pc = "call" /\ call.op = "print_pixel"
    /\ SinkReturn(IF call.mod = "img"
                  THEN print_pixel(out_type, call.v, call.c1, call.c2)
                  ELSE o_print_pixel(out_type, call.v, call.c1, call.c2))

SinkPrintLineUncolored ==
    /\ pc = "call" /\ call.op = "print_line"
    /\ SinkReturn(IF call.mod = "img"
                  THEN print_line([out_type EXCEPT !.color = "None"])
                  ELSE o_print_line([out_type EXCEPT !.color = "None"]))

SinkPrintLine ==
    /\ pc = "call" /\ call.op = "print_line"
    /\ SinkReturn(IF call.mod = "img" THEN print_line(out_type)
                                       ELSE o_print_line(out_type))

SinkWriteFooter ==
    /\ pc = "call" /\ call.op = "write_footer"
    /\ SinkReturn(IF call.mod = "img" THEN write_footer(out_type)
                                       ELSE o_write_footer(out_type))

SinkNext == SinkWriteHeader \/ SinkPrintPixel \/ SinkPrintLine \/ SinkWriteFooter

SpecSink == SinkInit /\ [][SinkNext]_vars

----------------------------------------------------------------------------
(* Claims about glyph selection                                             *)

\* The grayscale intensity of a color, floor((r + g + b) / 3).
Gray(c) == (c[1] + c[2] + c[3]) \div 3

Returned(fn) == pc = "returned" /\ call.fn = fn

\* C3 as stated: on a 1-row palette of N glyphs get_char_single_raw returns
\* the glyph at index min(floor(avg * N / 256), N - 1), avg being the
\* truncated mean of the two truncated grayscale intensities.
C3_RampIndex256 ==
    (Returned("get_char_single_raw") /\ Len(data) = 1) =>
        LET n == Len(data[1])
            avg == (Gray(call.t) + Gray(call.b)) \div 2
        IN  ch = data[1][Min((avg * n) \div 256, n - 1) + 1]

\* C3 amended: on a 1-row palette of N glyphs get_char_single_raw returns
\* the glyph at index min(floor(avg * N / 255), N - 1): the divisor is
\* u8::MAX = 255, not 256.
C3_RampIndex255 ==
    (Returned("get_char_single_raw") /\ Len(data) = 1) =>
        LET n == Len(data[1])
            avg == (Gray(call.t) + Gray(call.b)) \div 2
        IN  ch = data[1][Min((avg * n) \div 255, n - 1) + 1]

\* A ramp lookup where the two divisors disagree: Ascii, avg = 85.
C3_Witness ==
    /\ Returned("get_char_single_raw") /\ data = Ascii
    /\ call.t = <<85, 85, 85>> /\ call.b = <<85, 85, 85>>
    /\ ch = "~"

\* C4 as stated: on an R x C grid get_char returns grid[row][col] with
\* col = min(floor(top * C / 256), C - 1) from the top pixel alone and
\* row = min(floor(bottom * R / 256), R - 1) from the bottom pixel alone.
C4_GridIndex256 ==
    Returned("get_char") =>
        LET r == Len(data)
            c == Len(data[1])
            col == Min((Gray(call.t) * c) \div 256, c - 1)
            row == Min((Gray(call.b) * r) \div 256, r - 1)
        IN  ch = data[row + 1][col + 1]

\* C4 amended: on an R x C grid get_char returns grid[row][col] with
\* col = min(floor(top * C / 255), C - 1) from the top pixel alone and
\* row = min(floor(bottom * R / 255), R - 1) from the bottom pixel alone.
C4_GridIndex255 ==
    Returned("get_char") =>
        LET r == Len(data)
            c == Len(data[1])
            col == Min((Gray(call.t) * c) \div 255, c - 1)
            row == Min((Gray(call.b) * r) \div 255, r - 1)
        IN  ch = data[row + 1][col + 1]

\* A grid lookup whose row and column differ and where the divisors
\* disagree on the column: 5 columns, top intensity 51.
C4_Witness ==
    /\ Returned("get_char") /\ data = Grid5
    /\ call.t = <<51, 50, 51>> /\ call.b = <<204, 204, 204>>
    /\ ch = "g4_0"

\* C5: get_char maps the intensity corners to the grid corners, and on a
\* 5x5 grid intensity 127 selects index 2 on its axis.
C5_Corners ==
    Returned("get_char") =>
        LET r == Len(data)
            c == Len(data[1])
            gt == Gray(call.t)
            gb == Gray(call.b)
        IN  /\ (gt = 0 /\ gb = 0) => ch = data[1][1]
            /\ (gt = 255 /\ gb = 0) => ch = data[1][c]
            /\ (gt = 0 /\ gb = 255) => ch = data[r][1]
            /\ (gt = 255 /\ gb = 255) => ch = data[r][c]
            /\ (r = 5 /\ c = 5) =>
                /\ (gt = 127 /\ gb = 127) => ch = data[3][3]
                /\ (gt = 127 /\ gb = 0) => ch = data[1][3]
                /\ (gt = 0 /\ gb = 127) => ch = data[3][1]

\* White over black on a non-square grid selects the last column of row 0.
C5_Witness ==
    /\ Returned("get_char") /\ data = Grid(2, 3)
    /\ call.t = <<255, 255, 255>> /\ call.b = <<0, 0, 0>>
    /\ ch = "g0_2"

LookupReturned == Returned("get_char") \/ Returned("get_char_single_raw")

\* C21: for every color the intensity floor((r + g + b) / 3) is computed
\* without overflow of the 16-bit sum (at most 765) and lies in 0..255, so
\* the cast to 8 bits in get_char keeps its value; the averaged intensity of
\* get_char_single_raw lies in 0..255 as well.
C21_IntensityRange ==
    LookupReturned =>
        /\ \A c \in {call.t, call.b} :
                /\ c[1] + c[2] + c[3] <= 765
                /\ c[1] + c[2] + c[3] < U16_MOD
                /\ intensity16(c) = Gray(c)
                /\ intensity16(c) \in 0..U8_MAX
                /\ as_u8(intensity16(c)) = Gray(c)
        /\ (intensity16(call.t) + intensity16(call.b)) < U16_MOD
        /\ ((intensity16(call.t) + intensity16(call.b)) \div 2) \in 0..U8_MAX
        /\ Returned("get_char") =>
                ch = data[scale_index(Gray(call.b), Len(data)) + 1]
                         [scale_index(Gray(call.t), Len(data[1])) + 1]

C21_Witness ==
    /\ Returned("get_char") /\ data = Grid(3, 4)
    /\ call.t = <<255, 255, 255>> /\ call.b = <<254, 255, 255>>
    /\ ch = "g2_3"

PaletteChars(d) == {d[i][j] : i \in 1..Len(d), j \in 1..Len(d[1])}

\* C26: on a palette of R >= 1 rows of one length C >= 1 and any two colors,
\* get_char computes a row index below R and a column index below C and
\* get_char_single_raw an index below C: the lookup does not leave the
\* palette and returns one of its characters.
C26_IndexInPalette ==
    (LookupReturned /\ Len(data) >= 1
        /\ \A i \in 1..Len(data) : Len(data[i]) = Len(data[1]) /\ Len(data[1]) >= 1) =>
        /\ ret # "panic"
        /\ ops[1].row < Len(data)
        /\ ops[1].col < Len(data[1])
        /\ Returned("get_char_single_raw") => ops[1].row = 0
        /\ ch \in PaletteChars(data)

C26_Witness ==
    /\ Returned("get_char") /\ data = Grid(3, 4)
    /\ call.t = <<255, 255, 254>> /\ call.b = <<255, 255, 255>>
    /\ ops = <<[op |-> "index", row |-> 2, col |-> 3]>>
    /\ ch = "g2_3"

Avg(t, b) == (Gray(t) + Gray(b)) \div 2

\* C30: glyph selection is monotone in intensity: on a ramp a color pair of
\* no larger averaged intensity never selects a larger index; on a grid a
\* top color of no larger intensity never selects a larger column and a
\* bottom color of no larger intensity never selects a larger row;
\* intensity 0 selects index 0.
C30_Monotone ==
    /\ Returned("get_char_single_raw") =>
            /\ \A t \in Colors, b \in Colors :
                    Avg(t, b) <= Avg(call.t, call.b) =>
                        get_char_single_raw_index(data, t, b) <= ops[1].col
            /\ Avg(call.t, call.b) = 0 => ops[1].col = 0
    /\ Returned("get_char") =>
            /\ \A c \in Colors :
                    /\ Gray(c) <= Gray(call.t) =>
                            get_char_indices(data, c, call.b).row_index <= ops[1].col
                    /\ Gray(c) <= Gray(call.b) =>
                            get_char_indices(data, call.t, c).col_index <= ops[1].row
            /\ Gray(call.t) = 0 => ops[1].col = 0
            /\ Gray(call.b) = 0 => ops[1].row = 0

C30_Witness ==
    /\ Returned("get_char") /\ data = Grid(3, 4)
    /\ call.t = <<127, 127, 127>> /\ call.b = <<128, 128, 128>>
    /\ ops = <<[op |-> "index", row |-> 1, col |-> 1]>>

----------------------------------------------------------------------------
(* Claims about render / PixtImg::print                                     *)

Finished == pc = "done" /\ ret = "Ok"

CellOps == {i \in 1..Len(ops) : ops[i].op = "write_cell"}

\* C1: a render of a W x H image emits W * floor(H / 2) glyph cells.
C1_CellCount ==
    Finished => Cardinality(CellOps) = img.width * (img.height \div 2)

\* C2: the sampled top rows are y = 0, 2, 4, ... while y + 1 < H, each cell
\* reads (x, y) as top and (x, y + 1) as bottom, and no image row is used by
\* two different output rows.
C2_RowPairs ==
    /\ \A i \in CellOps :
          /\ ops[i].y % 2 = 0
          /\ ops[i].yb = ops[i].y + 1
          /\ ops[i].yb < img.height
    /\ \A i, j \in CellOps :
          ({ops[i].y, ops[i].yb} \cap {ops[j].y, ops[j].yb} # {}) => ops[i].y = ops[j].y
    /\ (Finished /\ img.width > 0) =>
          {ops[i].y : i \in CellOps} = {r \in 0..(img.height - 2) : r % 2 = 0}

\* C7: a finished render has performed write_header once, then for each
\* sampled row one write_cell per column with x ascending from 0 to W - 1
\* followed by one write_line_end, then write_footer once.
C7_SinkOrder ==
    Finished =>
        LET n == Len(ops)
            w == img.width
        IN  /\ n >= 2
            /\ ops[1].op = "write_header"
            /\ ops[n].op = "write_footer"
            /\ (n - 2) % (w + 1) = 0
            /\ \A i \in 2..(n - 1) :
                  LET k == (i - 2) % (w + 1)
                  IN  IF k < w
                      THEN /\ ops[i].op = "write_cell" /\ ops[i].x = k
                           /\ ops[i].y = ops[i + (w - k)].y
                      ELSE ops[i].op = "write_line_end"

Count(seq, tok) == Cardinality({i \in 1..Len(seq) : seq[i] = tok})

\* C8: the bytes of a finished Html render begin with <!DOCTYPE html>, end
\* with </html> and a single newline, and hold exactly one <pre> and exactly
\* one </pre>.
C8_HtmlFraming ==
    (Finished /\ out_type.fmt = "Html") =>
        LET n == Len(out)
        IN  /\ n >= 3
            /\ out[1] = "<!DOCTYPE html>"
            /\ out[n - 1] = "</html>" /\ out[n] = "\n"
            /\ Count(out, "<pre>") = 1
            /\ Count(out, "</pre>") = 1

\* C10: a write the destination fails is the last sink operation of print:
\* print has returned that error and no later cell, line end or footer is
\* written.
C10_ErrorAborts ==
    \A i \in 1..Len(ops) :
        (~ops[i].ok /\ ret # "panic") =>
            /\ i = Len(ops)
            /\ pc = "done"
            /\ ret = "Err"

\* A cell write fails after the header, a full row and a line end went
\* through, and print has returned the error.
C10_Witness ==
    /\ pc = "done" /\ ret = "Err"
    /\ Len(ops) > 3
    /\ ops[Len(ops)].op = "write_cell" /\ ~ops[Len(ops)].ok
    /\ \E i \in 1..Len(ops) : ops[i].op = "write_line_end" /\ ops[i].ok

LineOps == {i \in 1..Len(ops) : ops[i].op = "write_line_end"}

\* C17: a completed render of a 1x2 image holds exactly one glyph cell,
\* read from rows 0 and 1, in one row; a 1x1 image yields no cell and no row
\* at any point of its render.
C17_Boundary ==
    /\ (Finished /\ img.width = 1 /\ img.height = 2) =>
            /\ Cardinality(CellOps) = 1
            /\ Cardinality(LineOps) = 1
            /\ \A i \in CellOps : ops[i].x = 0 /\ ops[i].y = 0 /\ ops[i].yb = 1
    /\ (img.width = 1 /\ img.height = 1) =>
            /\ CellOps = {} /\ LineOps = {}
            /\ pc \notin {"inner", "line"}

C17_Witness ==
    /\ Finished /\ img.width = 1 /\ img.height = 2
    /\ data = Braills
    /\ Cardinality(CellOps) = 1

SolidBlack2x2 ==
    /\ Finished
    /\ img = [width |-> 2, height |-> 2, pat |-> "black"]
    /\ data = Ascii
    /\ out_type = [fmt |-> "Term", color |-> "None"]

\* C18 (as stated): a 2x2 solid-black image rendered with the Ascii ramp,
\* no color, for the terminal gives a single glyph cell, the first character
\* of the ramp (the space), followed by a line terminator.
C18_SingleCell ==
    SolidBlack2x2 => out = <<" ", "\n">>

\* C18 (amended): that render gives one row of two glyph cells, one per
\* column, each the first character of the ramp (the space), followed by a
\* line terminator.
C18_OneRowOfTwo ==
    SolidBlack2x2 =>
        /\ out = <<" ", " ", "\n">>
        /\ Cardinality(CellOps) = 2 /\ Cardinality(LineOps) = 1
        /\ ch = Ascii[1][1]

C18_Witness ==
    /\ SolidBlack2x2
    /\ Len(out) = 3

\* Two strings are equal up to the case of their letters.
SameIgnoringCase(a, b) ==
    /\ Len(a) = Len(b)
    /\ \A i \in 1..Len(a) : lower(a[i]) = lower(b[i])

\* The extension of the path of the call: what follows the last dot of the
\* file name, missing when the file name has no dot or only a leading one.
CallExt == IF call.ext.some /\ call.stem # <<>> THEN call.ext.v ELSE <<"missing">>

HexValue(d) ==
    IF \E i \in 1..16 : HexDigits[i] = d
    THEN (CHOOSE i \in 1..16 : HexDigits[i] = d) - 1
    ELSE -1

\* C20: rgb_to_css_hex returns exactly 7 characters: `#`, then the red,
\* green and blue channels, each as two uppercase hexadecimal digits with a
\* leading zero where needed.
C20_CssHex ==
    Returned("rgb_to_css_hex") =>
        /\ Len(out) = 7
        /\ out[1] = "#"
        /\ \A i \in 1..3 :
                /\ HexValue(out[2 * i]) >= 0
                /\ HexValue(out[2 * i + 1]) >= 0
                /\ 16 * HexValue(out[2 * i]) + HexValue(out[2 * i + 1]) = call.c[i]

C20_Witness ==
    /\ Returned("rgb_to_css_hex")
    /\ call.c = <<9, 171, 255>>
    /\ out = <<"#", "0", "9", "A", "B", "F", "F">>

\* C22: the Pixel preset rendered with a color mode uses the one-character
\* palette: every cell it emits holds the glyph U+2580; the 5-character ramp
\* is the palette of Pixel only without color.
C22_PixelColored ==
    (call.style = "Pixel" /\ out_type.fmt \in {"Term", "Html"}
        /\ out_type.color # "None" /\ CellOps # {}) =>
        /\ data = PixelOne
        /\ ch = "u2580"

\* C23: the sequence of PixtData::chars is finite and non-restartable: the
\* outer iterator yields fewer than H rows (none for H = 0) and each inner
\* iterator at most W items, however often next() is called, and an
\* iterator that has returned None returns None on every later call.
C23_FiniteFused ==
    pc = "iter" =>
        /\ call.rows <= Max(img.height - 1, 0)
        /\ call.items <= img.width
        /\ call.outer_none => call.outer_last = "None"
        /\ call.inner_none => call.inner_last = "None"

C23_Witness ==
    /\ pc = "iter"
    /\ img.width = 2 /\ img.height = 3
    /\ call.outer_none /\ call.rows = 2
    /\ call.inner_none /\ call.items = 2

\* C27: every pixel read made while iterating PixtData::chars is inside the
\* image: an inner iterator the outer one produced reads (x, y) and
\* (x, y + 1) only with x < W and y + 1 < H, so no read panics, for every
\* image size, H = 0, H = 1 and W = 0 included.
C27_ReadsInside ==
    /\ pc = "iter" /\ ret # "panic"
    /\ \A i \in 1..Len(ops) :
            /\ ops[i].x < img.width
            /\ ops[i].y < img.height
            /\ ops[i].yb < img.height
    /\ (call.has_inner /\ inner.x < img.width /\ inner.y < img.height) =>
            inner.y + 1 < img.height

C27_Witness ==
    /\ pc = "iter" /\ img.width = 2 /\ img.height = 2
    /\ call.inner_last = "Some"
    /\ ops = <<Op("read", 1, 0, 1)>>

\* C25: Style::print on an image of width W and height H >= 1 visits the
\* top rows 0, 2, 4, ... below H - 1; when it returns it has called
\* print_pixel W * floor(H / 2) times and line floor(H / 2) times, on 1-row
\* and on multi-row palettes alike; the last row of an odd H is never read.
C25_StylePrintPairs ==
    img.height >= 1 =>
        /\ \A i \in 1..Len(ops) :
                /\ ops[i].y % 2 = 0
                /\ ops[i].y < img.height - 1
                /\ ops[i].yb = ops[i].y + 1
                /\ img.height % 2 = 1 =>
                        (ops[i].y # img.height - 1 /\ ops[i].yb # img.height - 1)
        /\ Finished =>
                /\ Cardinality(CellOps) = img.width * (img.height \div 2)
                /\ Cardinality(LineOps) = img.height \div 2

C25_Witness ==
    /\ Finished
    /\ img.width = 2 /\ img.height = 5
    /\ data = Braills
    /\ Cardinality(CellOps) = 4 /\ Cardinality(LineOps) = 2

\* The sink operations of output row r (from 0) of an image of width w:
\* w cells, then the end of the line.
RowOps(r, w) == {r * (w + 1) + k : k \in 1..(w + 1)}

\* C28: the render loop of main visits the top rows 0, 2, 4, ... below H and
\* reads the bottom pixel from row min(y + 1, H - 1): it reads no row from H
\* on; when it ends it has emitted ceil(H / 2) rows of W cells, each row
\* followed by one reset and newline; for odd H the last row of the image
\* is rendered as cells whose top and bottom colors are equal.
C28_MainLoop ==
    /\ \A i \in 1..Len(ops) :
            /\ ops[i].op # "read"
            /\ ops[i].x < Max(img.width, 1)
            /\ ops[i].y % 2 = 0 /\ ops[i].y < img.height
            /\ ops[i].op = "write_cell" =>
                    /\ ops[i].yb = Min(ops[i].y + 1, img.height - 1)
                    /\ ops[i].yb < img.height
    /\ (ops # <<>> /\ ops[Len(ops)].op = "write_cell"
            /\ ops[Len(ops)].y = img.height - 1) =>
            /\ ops[Len(ops)].yb = ops[Len(ops)].y
            /\ call.t = call.b
    /\ Finished =>
            LET rows == (img.height + 1) \div 2
            IN  /\ Len(ops) = rows * (img.width + 1)
                /\ \A r \in 0..(rows - 1) : \A i \in RowOps(r, img.width) :
                        /\ ops[i].y = 2 * r
                        /\ ops[i].op = IF i = (r + 1) * (img.width + 1)
                                        THEN "write_line_end" ELSE "write_cell"
                /\ Count(out, "ESC[0m") = rows
                /\ Count(out, "\n") = rows
                /\ Count(out, "u2580") = rows * img.width

C28_Witness ==
    /\ Finished
    /\ img = [width |-> 2, height |-> 3, pat |-> "grad"]
    /\ Cardinality(CellOps) = 4 /\ Cardinality(LineOps) = 2
    /\ ops[5].y = 2 /\ ops[5].yb = 2

\* C11: a palette with zero rows or a zero-width row is rejected at
\* construction: a render of it never reaches write_header, emits no byte
\* and never invokes a glyph lookup.
C11_MalformedRejected ==
    Malformed(data) =>
        /\ ops = <<>>
        /\ out = <<>>
        /\ call = NoCall

----------------------------------------------------------------------------
(* Claims about the sink                                                    *)

Contains(seq, sub) ==
    \E i \in 1..(Len(seq) - Len(sub) + 1) : SubSeq(seq, i, i + Len(sub) - 1) = sub

\* The cell `bytes` sets the foreground (background) to the color c: the
\* crossterm escape of a Term cell, the CSS declaration of an Html span.
SetsFg(bytes, fmt, c) ==
    IF fmt = "Term"
    THEN Contains(bytes, SetForegroundColor(c))
    ELSE \E p \in {"<span style=\"color:", "<span style=\"color: "} :
            Contains(bytes, <<p>> \o rgb_to_css_hex(c))

SetsBg(bytes, fmt, c) ==
    IF fmt = "Term"
    THEN Contains(bytes, SetBackgroundColor(c))
    ELSE \E p \in {"background-color:", "background-color: ",
                    ";background-color:", ";background-color: ",
                    "<span style=\"background-color:",
                    "<span style=\"background-color: "} :
            Contains(bytes, <<p>> \o rgb_to_css_hex(c))

\* Every color a cell of the call could name: the two pixels and their mean.
CellColors == SinkColors \cup {avg_color(c1, c2) : c1 \in SinkColors, c2 \in SinkColors}

PixelReturned(fmts, colors) ==
    /\ pc = "returned" /\ call.op = "print_pixel"
    /\ out_type.fmt \in fmts /\ out_type.color \in colors

C15_HtmlEscaped ==
    PixelReturned({"Html"}, {"None"}) =>
        \A i \in 1..Len(out) : out[i] \notin {"<", ">", "&"}

\* C24: write_header and write_footer of Text and Term, with any color mode
\* and any width and height, write no byte and return success; only Html
\* writes a header and a footer.
C24_HeaderFooterFrame ==
    (pc = "returned" /\ call.op \in {"write_header", "write_footer"}) =>
        /\ out_type.fmt \in {"Text", "Term"} => (out = <<>> /\ ret = "Ok")
        /\ out_type.fmt = "Html" => (out # <<>> /\ ret = "Ok")
        /\ out # <<>> => out_type.fmt = "Html"

C24_Witness ==
    /\ pc = "returned" /\ call.op = "write_footer" /\ call.mod = "img"
    /\ out_type = [fmt |-> "Text", color |-> "BgTopFgDown"]
    /\ out = <<>> /\ ret = "Ok"

\* C29: for the Text output type the color mode has no effect: the cell
\* writer and the line writer of Text(c) write what those of Text(None)
\* write, the bare glyph and a single newline, without color information.
C29_TextIgnoresColor ==
    (pc = "returned" /\ out_type.fmt = "Text"
        /\ call.op \in {"print_pixel", "print_line"}) =>
        /\ ret = "Ok"
        /\ call.op = "print_pixel" =>
                /\ out = <<call.v>>
                /\ out = print_pixel(TextNone, call.v, call.c1, call.c2).bytes
        /\ call.op = "print_line" =>
                /\ out = <<"\n">>
                /\ out = print_line(TextNone).bytes

C29_Witness ==
    /\ pc = "returned" /\ call.op = "print_pixel"
    /\ out_type = [fmt |-> "Text", color |-> "FgTopBgDown"]
    /\ call.c1 = <<255, 0, 16>> /\ call.c2 = <<9, 171, 255>>
    /\ out = <<"u2580">>

\* C9: every sink operation of an Svg output type fails explicitly and
\* writes no byte; none returns success or emits output.
C9_SvgUnsupported ==
    (pc = "returned" /\ call.op \in SinkOps /\ out_type.fmt = "Svg") =>
        /\ ret # "Ok"
        /\ out = <<>>

====
